---- MODULE Spec2Model ----
(***************************************************************************)
(* fixed-typed-arena: the positions-capable arena (ManuallyDropArena and   *)
(* its scope-bound wrapper Arena), its chunk chain, iterators and          *)
(* positions.                                                              *)
(*                                                                         *)
(* The heap is a finite set of chunk addresses; a chunk holds CHUNK_SIZE   *)
(* item slots and a forward link.  Arc<()> identity tokens are addresses   *)
(* of a second finite set; a token is live while any arena, iterator or    *)
(* position holds it.                                                      *)
(***************************************************************************)
EXTENDS Integers, Sequences, FiniteSets, TLC

\* ---- bounds of the model ----
MaxChunkSize == 2
MaxItems == 3
NumChunkAddrs == 2
NumRcAddrs == 3
MaxClones == 1

Null == 0
NullPtr == <<Null, 0>>
Arenas == {1, 2}
ChunkAddrs == 1..NumChunkAddrs
RcAddrs == 1..NumRcAddrs
\* A slot holds an item (its allocation serial number, which is also the value
\* the caller wrote: the arena never inspects items) or is uninitialized.
Uninit == 0

VARIABLES
    CHUNK_SIZE,          \* Options::ChunkSize, fixed at construction
    SUPPORTS_POSITIONS,  \* Options::SupportsPositions, fixed at construction
    MUTABLE,             \* Options::Mutable, fixed at construction
    kind,                \* per arena: "Arena" or "ManuallyDropArena"
    handle,              \* per arena: "live", "dropped" (the handle was destroyed) or
                         \* "consumed" (into_iter took the arena by value)
    arena,               \* per arena: the fields rc, head, tail, tail_len, len
    heap,                \* chunk address -> [live, next, items]
    iter,                \* the IterPtr in the caller's hands, or NoIter
    position,            \* the Position in the caller's hands, or NoPosition
    result,              \* outcome of the last call: "ok", "none" (try_alloc failed), "panic", "abort"
    hist,                \* per arena: items allocated since construction / last release
    gone,                \* per arena: items the arena held when it was released
    dropped,             \* item destructor invocations, in order
    nchunks,             \* per arena: chunk-allocation events since construction / last release
    serial,              \* number of items allocated so far, all arenas
    iterInfo,            \* bookkeeping for iter: its arena, what it yielded, the position it resumed
    positionInfo,        \* bookkeeping for position: source arena, items before it
    ub,                  \* a freed chunk or an uninitialized slot was accessed
    loans,               \* the borrows of the scope-bound arena that are alive
    memory               \* the item type's size and alignment, and the chunk memory
                         \* layout computed from them (minimal design)

vars == <<CHUNK_SIZE, SUPPORTS_POSITIONS, MUTABLE, kind, handle, arena, heap, iter,
          position, result, hist, gone, dropped, nchunks, serial,
          iterInfo, positionInfo, ub, loans, memory>>

config == <<CHUNK_SIZE, SUPPORTS_POSITIONS, MUTABLE, kind, memory>>

\* ---- chunk.rs ----

Slots == 0..(CHUNK_SIZE - 1)

FreeMemory == [live |-> FALSE, next |-> Null, items |-> [i \in Slots |-> Uninit]]

\* ChunkRef::new: `p` is what alloc::alloc::alloc returned (Null: failure).
ChunkRef_new(h, prev, p) ==
    IF p = Null
    THEN [chunk |-> Null, heap |-> h]
    ELSE LET h1 == [h EXCEPT ![p] = [live |-> TRUE, next |-> Null,
                                     items |-> [i \in Slots |-> Uninit]]]
         IN [chunk |-> p,
             heap |-> IF prev # Null THEN [h1 EXCEPT ![prev].next = p] ELSE h1]

\* ChunkRef::next
ChunkRef_next(h, c) == h[c].next

\* ChunkRef::get: pointer to slot i (i = CHUNK_SIZE is one past the end).
ChunkRef_get(c, i) == <<c, i>>

\* ChunkRef::dealloc
dealloc(h, c) == [h EXCEPT ![c] = FreeMemory]

\* ChunkRef::drop_item: runs the destructor of slot i; `log` records it.
drop_item(w, c, i) ==
    [heap |-> [w.heap EXCEPT ![c].items[i] = Uninit],
     log |-> Append(w.log, w.heap[c].items[i])]

RECURSIVE drop_range(_, _, _, _)
\* for i in from..to (exclusive): drop_item(i)
drop_range(w, c, from, to) ==
    IF from >= to THEN w ELSE drop_range(drop_item(w, c, from), c, from + 1, to)

\* ChunkRef::drop_all
drop_all(w, c) == drop_range(w, c, 0, CHUNK_SIZE)

\* ---- options.rs ----

\* SupportsPositionsPriv::init_rc: `t` is the address Arc::default() returned.
init_rc(rc, t) ==
    IF SUPPORTS_POSITIONS /\ rc = Null THEN t ELSE rc

\* ---- manually_drop.rs ----

\* Faulty variant, for comparison: the tokens are compared with ==, which on Arc<()> compares the
\* values they point to.
valid_rc_update_by_value(old, new) ==
    IF old # Null /\ new # Null THEN TRUE
    ELSE IF old # Null THEN FALSE
    ELSE TRUE

valid_rc_update(old, new) ==
    IF old # Null /\ new # Null THEN old = new
    ELSE IF old # Null THEN FALSE
    ELSE TRUE

\* ManuallyDropArena::new
ManuallyDropArena_new ==
    [rc |-> Null, head |-> Null, tail |-> Null, tail_len |-> CHUNK_SIZE, len |-> 0]

\* Faulty variant, for comparison: a new chunk is taken one item too early.
tail_is_full_early(ar) == ~(ar.tail_len + 1 < CHUNK_SIZE)

\* The test of ensure_free_space (line 108), negated: a new chunk is needed.
tail_is_full(ar) == ~(ar.tail_len < CHUNK_SIZE)

\* Faulty variant, for comparison: the chunk size is not asserted to be positive.
ensure_free_space_unasserted(ar, h, p) ==
    IF ~tail_is_full(ar)
    THEN [ok |-> TRUE, panic |-> FALSE, arena |-> ar, heap |-> h]
    ELSE LET taken == [ar EXCEPT !.tail = Null]
             n == ChunkRef_new(h, ar.tail, p)
         IN IF n.chunk = Null
            THEN [ok |-> FALSE, panic |-> FALSE, arena |-> taken, heap |-> n.heap]
            ELSE [ok |-> TRUE, panic |-> FALSE,
                  arena |-> [taken EXCEPT !.head = IF @ = Null THEN n.chunk ELSE @,
                                          !.tail = n.chunk,
                                          !.tail_len = 0],
                  heap |-> n.heap]

\* ManuallyDropArena::ensure_free_space.  panic: assert!(CHUNK_SIZE > 0) failed.
ensure_free_space(ar, h, p) ==
    IF ~(CHUNK_SIZE > 0)
    THEN [ok |-> FALSE, panic |-> TRUE, arena |-> ar, heap |-> h]
    ELSE IF ~tail_is_full(ar)
    THEN [ok |-> TRUE, panic |-> FALSE, arena |-> ar, heap |-> h]
    ELSE LET taken == [ar EXCEPT !.tail = Null]       \* self.tail.take()
             n == ChunkRef_new(h, ar.tail, p)
         IN IF n.chunk = Null
            THEN [ok |-> FALSE, panic |-> FALSE, arena |-> taken, heap |-> n.heap]
            ELSE [ok |-> TRUE, panic |-> FALSE,
                  arena |-> [taken EXCEPT !.head = IF @ = Null THEN n.chunk ELSE @,
                                          !.tail = n.chunk,
                                          !.tail_len = 0],
                  heap |-> n.heap]

\* Faulty variant, for comparison: the item is written to the first slot of the tail chunk.
try_alloc_ptr_first_slot(ar, h, value, p, t) ==
    LET e == ensure_free_space(ar, h, p) IN
    IF e.panic
    THEN [status |-> "panic", arena |-> e.arena, heap |-> e.heap, ptr |-> NullPtr,
          log |-> <<value>>]
    ELSE IF ~e.ok
    THEN [status |-> "none", arena |-> e.arena, heap |-> e.heap, ptr |-> NullPtr,
          log |-> <<value>>]
    ELSE IF init_rc(e.arena.rc, t) = Null /\ SUPPORTS_POSITIONS
    THEN [status |-> "abort", arena |-> e.arena, heap |-> e.heap, ptr |-> NullPtr,
          log |-> <<>>]
    ELSE LET a1 == [e.arena EXCEPT !.rc = init_rc(@, t)]
             item == ChunkRef_get(a1.tail, 0)
         IN [status |-> "some",
             arena |-> [a1 EXCEPT !.tail_len = @ + 1, !.len = @ + 1],
             heap |-> [e.heap EXCEPT ![a1.tail].items[0] = value],
             ptr |-> item,
             log |-> <<>>]

\* Faulty variant, for comparison: the total count is not advanced.
try_alloc_ptr_no_len(ar, h, value, p, t) ==
    LET e == ensure_free_space(ar, h, p) IN
    IF e.panic
    THEN [status |-> "panic", arena |-> e.arena, heap |-> e.heap, ptr |-> NullPtr,
          log |-> <<value>>]
    ELSE IF ~e.ok
    THEN [status |-> "none", arena |-> e.arena, heap |-> e.heap, ptr |-> NullPtr,
          log |-> <<value>>]
    ELSE IF init_rc(e.arena.rc, t) = Null /\ SUPPORTS_POSITIONS
    THEN [status |-> "abort", arena |-> e.arena, heap |-> e.heap, ptr |-> NullPtr,
          log |-> <<>>]
    ELSE LET a1 == [e.arena EXCEPT !.rc = init_rc(@, t)]
             item == ChunkRef_get(a1.tail, a1.tail_len)
         IN [status |-> "some",
             arena |-> [a1 EXCEPT !.tail_len = @ + 1],
             heap |-> [e.heap EXCEPT ![a1.tail].items[a1.tail_len] = value],
             ptr |-> item,
             log |-> <<>>]

\* ManuallyDropArena::try_alloc_ptr.  status "panic": the assertion of
\* ensure_free_space unwinds through it; "abort": Arc::default() could not
\* allocate (handle_alloc_error).  log: the item destructors run during the
\* call.  `value` is a by-value parameter: the early return of line 134 and
\* the unwinding of the assertion drop it before the call is over; an abort
\* runs no destructor, and ptr::write (line 150) moves the value into its slot.
try_alloc_ptr(ar, h, value, p, t) ==
    LET e == ensure_free_space(ar, h, p) IN
    IF e.panic
    THEN [status |-> "panic", arena |-> e.arena, heap |-> e.heap, ptr |-> NullPtr,
          log |-> <<value>>]
    ELSE IF ~e.ok
    THEN [status |-> "none", arena |-> e.arena, heap |-> e.heap, ptr |-> NullPtr,
          log |-> <<value>>]
    ELSE IF init_rc(e.arena.rc, t) = Null /\ SUPPORTS_POSITIONS
    THEN [status |-> "abort", arena |-> e.arena, heap |-> e.heap, ptr |-> NullPtr,
          log |-> <<>>]
    ELSE LET a1 == [e.arena EXCEPT !.rc = init_rc(@, t)]
             item == ChunkRef_get(a1.tail, a1.tail_len)
         IN [status |-> "some",
             arena |-> [a1 EXCEPT !.tail_len = @ + 1, !.len = @ + 1],
             heap |-> [e.heap EXCEPT ![a1.tail].items[a1.tail_len] = value],
             ptr |-> item,
             log |-> <<>>]

\* Faulty variant, for comparison: the failure is handed to the caller.
alloc_ptr_forwards(ar, h, value, p, t) ==
    try_alloc_ptr(ar, h, value, p, t)

\* ManuallyDropArena::alloc_ptr: None becomes handle_alloc_error.
alloc_ptr(ar, h, value, p, t) ==
    LET r == try_alloc_ptr(ar, h, value, p, t) IN
    IF r.status = "none" THEN [r EXCEPT !.status = "abort"] ELSE r

RECURSIVE drop_chunks(_, _, _)
\* The two loops of ManuallyDropArena::drop (lines 191-222).
drop_chunks(w, head, tail_len) ==
    LET next == ChunkRef_next(w.heap, head) IN
    IF next # Null
    THEN LET d == drop_all(w, head)
         IN drop_chunks([heap |-> dealloc(d.heap, head), log |-> d.log], next, tail_len)
    ELSE LET d == drop_range(w, head, 0, tail_len)
         IN [heap |-> dealloc(d.heap, head), log |-> d.log]

\* Faulty variant, for comparison: release leaves the identity token in place.
ManuallyDropArena_drop_keeps_rc(ar, h) ==
    IF ar.head = Null
    THEN [arena |-> ar, heap |-> h, log |-> <<>>]
    ELSE LET w == drop_chunks([heap |-> h, log |-> <<>>], ar.head, ar.tail_len)
         IN [arena |-> [rc |-> ar.rc, head |-> Null, tail |-> Null,
                        tail_len |-> CHUNK_SIZE, len |-> 0],
             heap |-> w.heap, log |-> w.log]

\* Faulty variant, for comparison: the fields are reset before head is looked at, and
\* tail_len is reset to 0.
ManuallyDropArena_drop_resets_first(ar, h) ==
    IF ar.head = Null
    THEN [arena |-> [rc |-> Null, head |-> Null, tail |-> Null,
                     tail_len |-> 0, len |-> 0],
          heap |-> h, log |-> <<>>]
    ELSE LET w == drop_chunks([heap |-> h, log |-> <<>>], ar.head, ar.tail_len)
         IN [arena |-> [rc |-> Null, head |-> Null, tail |-> Null,
                        tail_len |-> 0, len |-> 0],
             heap |-> w.heap, log |-> w.log]

\* ManuallyDropArena::drop
ManuallyDropArena_drop(ar, h) ==
    IF ar.head = Null
    THEN [arena |-> ar, heap |-> h, log |-> <<>>]
    ELSE LET w == drop_chunks([heap |-> h, log |-> <<>>], ar.head, ar.tail_len)
         IN [arena |-> [rc |-> Null, head |-> Null, tail |-> Null,
                        tail_len |-> CHUNK_SIZE, len |-> 0],
             heap |-> w.heap, log |-> w.log]

\* ManuallyDropArena::len / is_empty
len(a) == arena[a].len
is_empty(a) == arena[a].len = 0

\* ManuallyDropArena::end
end(ar) == IF ar.tail = Null THEN NullPtr ELSE ChunkRef_get(ar.tail, ar.tail_len)

\* ManuallyDropArena::iter_ptr
iter_ptr(ar, DROP) ==
    [chunk |-> ar.head, index |-> 0, end |-> end(ar), rc |-> ar.rc, DROP |-> DROP]

\* ManuallyDropArena::iter_ptr_at, after its assertion.
iter_ptr_at(ar, pos) ==
    [chunk |-> IF pos.chunk # Null THEN pos.chunk ELSE ar.head,
     index |-> pos.index, end |-> end(ar), rc |-> ar.rc, DROP |-> FALSE]

\* ---- manually_drop/iter.rs ----

\* Faulty variant, for comparison: the end pointer is not consulted, the iterator
\* runs to the last slot of the last chunk.
IterPtr_next_past_end(it, h) ==
    IF it.chunk = Null
    THEN [iter |-> it, heap |-> h, item |-> NullPtr]
    ELSE LET chunk == it.chunk
             item == ChunkRef_get(chunk, it.index)
         IN IF it.index >= CHUNK_SIZE
            THEN LET next == ChunkRef_next(h, chunk)
                     it1 == IF it.DROP \/ next # Null
                            THEN [it EXCEPT !.index = 0, !.chunk = next]
                            ELSE it
                     h1 == IF it.DROP THEN dealloc(h, chunk) ELSE h
                 IN IF next = Null
                    THEN [iter |-> it1, heap |-> h1, item |-> NullPtr]
                    ELSE [iter |-> [it1 EXCEPT !.index = @ + 1], heap |-> h1,
                          item |-> ChunkRef_get(next, it1.index)]
            ELSE [iter |-> [it EXCEPT !.index = @ + 1], heap |-> h, item |-> item]

\* Faulty variant, for comparison: at the end of a chunk the iterator is moved on
\* also when it does not consume and no further chunk exists.
IterPtr_next_clears_at_end(it, h) ==
    IF it.chunk = Null
    THEN [iter |-> it, heap |-> h, item |-> NullPtr]
    ELSE LET chunk == it.chunk
             item == ChunkRef_get(chunk, it.index)
             atEnd == it.end = item
         IN IF atEnd \/ it.index >= CHUNK_SIZE
            THEN LET next == IF ~atEnd THEN ChunkRef_next(h, chunk) ELSE Null
                     it1 == [it EXCEPT !.index = 0, !.chunk = next]
                     h1 == IF it.DROP THEN dealloc(h, chunk) ELSE h
                 IN IF next = Null
                    THEN [iter |-> it1, heap |-> h1, item |-> NullPtr]
                    ELSE [iter |-> [it1 EXCEPT !.index = @ + 1], heap |-> h1,
                          item |-> ChunkRef_get(next, it1.index)]
            ELSE [iter |-> [it EXCEPT !.index = @ + 1], heap |-> h, item |-> item]

\* IterPtr::next
IterPtr_next(it, h) ==
    IF it.chunk = Null
    THEN [iter |-> it, heap |-> h, item |-> NullPtr]
    ELSE LET chunk == it.chunk
             item == ChunkRef_get(chunk, it.index)
             atEnd == it.end = item
         IN IF atEnd \/ it.index >= CHUNK_SIZE
            THEN LET next == IF ~atEnd THEN ChunkRef_next(h, chunk) ELSE Null
                     it1 == IF it.DROP \/ next # Null
                            THEN [it EXCEPT !.index = 0, !.chunk = next]
                            ELSE it
                     h1 == IF it.DROP THEN dealloc(h, chunk) ELSE h
                 IN IF next = Null
                    THEN [iter |-> it1, heap |-> h1, item |-> NullPtr]
                    ELSE [iter |-> [it1 EXCEPT !.index = @ + 1], heap |-> h1,
                          item |-> ChunkRef_get(next, it1.index)]
            ELSE [iter |-> [it EXCEPT !.index = @ + 1], heap |-> h, item |-> item]

RECURSIVE drop_remaining(_, _)
\* Drop for IterPtr<DROP = true>: for item in self { drop_in_place(item) }.
\* w is [iter, heap, log, ub].
drop_remaining(w, n) ==
    LET r == IterPtr_next(w.iter, w.heap) IN
    IF r.item = NullPtr \/ n = 0
    THEN [w EXCEPT !.iter = r.iter, !.heap = r.heap,
                   !.ub = @ \/ (w.iter.chunk # Null /\ ~w.heap[w.iter.chunk].live)]
    ELSE LET d == drop_item([heap |-> r.heap, log |-> w.log], r.item[1], r.item[2])
         IN drop_remaining([iter |-> r.iter, heap |-> d.heap, log |-> d.log,
                            ub |-> w.ub \/ ~w.heap[w.iter.chunk].live
                                        \/ ~w.heap[r.item[1]].live
                                        \/ w.heap[r.item[1]].items[r.item[2]] = Uninit],
                           n - 1)

\* Faulty variant, for comparison: the position does not take the token along.
as_position_without_rc(it) == [chunk |-> it.chunk, index |-> it.index, rc |-> Null]

\* IterPtr::as_position
as_position(it) == [chunk |-> it.chunk, index |-> it.index, rc |-> it.rc]

\* ---- the caller's view ----

NoIter == [chunk |-> Null, index |-> 0, end |-> NullPtr, rc |-> Null, DROP |-> FALSE]
NoIterInfo == [src |-> 0, start |-> 0, skip |-> 0, out |-> <<>>, done |-> FALSE,
               fresh |-> FALSE, epoch |-> 0, psrc |-> 0, pepoch |-> 0, ptoken |-> FALSE]
NoPosition == [chunk |-> Null, index |-> 0, rc |-> Null]
NoPositionInfo == [src |-> 0, k |-> 0, epoch |-> 0]
\* refs: the item references alive, each [item, mut (it is a &mut T), excl (it
\* was derived from a &mut borrow of the arena)]; iter: the kind of the
\* iterator in the caller's hands; others: further Iter values alive.
NoLoans == [refs |-> {}, iter |-> "none", others |-> 0]
\* No layout has been computed: size_of::<T>() and align_of::<T>() play no part.
NoMemory == [size_of_T |-> 1, align_of_T |-> 1,
             layout |-> [status |-> "none", size |-> 0, align |-> 1]]

Running == result # "abort"
HasIter == iterInfo.src # 0
HasPosition == positionInfo.src # 0

LiveChunks(h) == {c \in ChunkAddrs : h[c].live}
FreeChunks == ChunkAddrs \ LiveChunks(heap)
LiveRcs == ({arena[a].rc : a \in Arenas} \cup {iter.rc, position.rc}) \ {Null}
FreeRcs == RcAddrs \ LiveRcs

MinOf(S) == CHOOSE t \in S : \A u \in S : t <= u

\* What the global allocator may answer when a chunk is requested: failure, or
\* the address of any free block.  Addresses are only ever compared for
\* equality, and the one pointer that can outlive its chunk is position.chunk,
\* so the free addresses fall into two classes: the one a stale position still
\* names, and the others, of which the lowest stands for all.
ChunkChoices(ar) ==
    IF tail_is_full(ar)
    THEN {Null} \cup (FreeChunks \cap {position.chunk})
                \cup (IF FreeChunks \ {position.chunk} = {} THEN {}
                      ELSE {MinOf(FreeChunks \ {position.chunk})})
    ELSE {Null}

\* What the global allocator may answer when Arc::default() is called: failure,
\* or an address no live Arc has.  Tokens are reference counted, so none is
\* ever named after it was freed: the lowest free address stands for all.
RcChoices(ar) ==
    IF SUPPORTS_POSITIONS /\ ar.rc = Null /\ FreeRcs # {}
    THEN {Null, MinOf(FreeRcs)}
    ELSE {Null}

Epoch(a) == Len(gone[a])

Deref(h, c) == c # Null /\ ~h[c].live

Init ==
    /\ CHUNK_SIZE \in 0..MaxChunkSize
    /\ SUPPORTS_POSITIONS \in BOOLEAN
    /\ MUTABLE \in BOOLEAN
    /\ kind \in [Arenas -> {"Arena", "ManuallyDropArena"}]
    /\ kind[2] = "ManuallyDropArena"
    /\ handle = [a \in Arenas |-> "live"]
    /\ arena = [a \in Arenas |-> ManuallyDropArena_new]
    /\ heap = [c \in ChunkAddrs |-> FreeMemory]
    /\ iter = NoIter
    /\ position = NoPosition
    /\ result = "ok"
    /\ hist = [a \in Arenas |-> <<>>]
    /\ gone = [a \in Arenas |-> <<>>]
    /\ dropped = <<>>
    /\ nchunks = [a \in Arenas |-> 0]
    /\ serial = 0
    /\ iterInfo = NoIterInfo
    /\ positionInfo = NoPositionInfo
    /\ ub = FALSE
    /\ loans = NoLoans
    /\ memory = NoMemory

\* The common part of the allocation entry points.  `dropped` records the
\* destructors of items the arenas hold; the destruction of a rejected value
\* (r.log) shows in the result: "none", "panic", and "abort" out of "none".
Allocated(a, r) ==
    /\ arena' = [arena EXCEPT ![a] = r.arena]
    /\ heap' = r.heap
    /\ result' = IF r.status = "some" THEN "ok" ELSE r.status
    /\ nchunks' = [nchunks EXCEPT
                     ![a] = @ + Cardinality(LiveChunks(r.heap)) - Cardinality(LiveChunks(heap))]
    /\ IF r.status = "some"
       THEN /\ serial' = serial + 1
            /\ hist' = [hist EXCEPT ![a] = Append(@, [item |-> r.heap[r.ptr[1]].items[r.ptr[2]],
                                                      ptr |-> r.ptr])]
       ELSE UNCHANGED <<serial, hist>>
    /\ UNCHANGED <<config, loans, handle, iter, position, gone, dropped, iterInfo,
                   positionInfo, ub>>

\* alloc / alloc_shared
Alloc(a) ==
    /\ Running /\ handle[a] = "live" /\ serial < MaxItems
    /\ \E p \in ChunkChoices(arena[a]), t \in RcChoices(arena[a]) :
         Allocated(a, alloc_ptr(arena[a], heap, serial + 1, p, t))

\* try_alloc / try_alloc_shared
TryAlloc(a) ==
    /\ Running /\ handle[a] = "live" /\ serial < MaxItems
    /\ \E p \in ChunkChoices(arena[a]), t \in RcChoices(arena[a]) :
         Allocated(a, try_alloc_ptr(arena[a], heap, serial + 1, p, t))

\* iter / iter_unchecked / iter_mut
Iter(a) ==
    /\ Running /\ handle[a] = "live" /\ ~HasIter
    /\ iter' = iter_ptr(arena[a], FALSE)
    /\ iterInfo' = [src |-> a, start |-> Len(hist[a]), skip |-> 0, out |-> <<>>,
                    done |-> FALSE, fresh |-> TRUE, epoch |-> Epoch(a),
                    psrc |-> 0, pepoch |-> 0, ptoken |-> FALSE]
    /\ result' = "ok"
    /\ UNCHANGED <<config, loans, handle, arena, heap, position, hist, gone, dropped,
                   nchunks, serial, positionInfo, ub>>

\* Iterator::next on the iterator
IterNext ==
    /\ Running /\ HasIter
    /\ LET r == IterPtr_next(iter, heap) IN
       /\ iter' = r.iter
       \* IntoIter::next reads the item out of its slot (ptr::read): the caller
       \* owns it from now on.
       /\ heap' = IF iter.DROP /\ r.item # NullPtr
                  THEN [r.heap EXCEPT ![r.item[1]].items[r.item[2]] = Uninit]
                  ELSE r.heap
       /\ iterInfo' = IF r.item = NullPtr
                      THEN [iterInfo EXCEPT !.done = TRUE]
                      ELSE [iterInfo EXCEPT !.out = Append(@, heap[r.item[1]].items[r.item[2]])]
       /\ result' = "ok"
       /\ ub' = (ub \/ Deref(heap, iter.chunk)
                    \/ (r.item # NullPtr /\ (Deref(heap, r.item[1])
                                             \/ heap[r.item[1]].items[r.item[2]] = Uninit)))
    /\ UNCHANGED <<config, loans, handle, arena, position, hist, gone, dropped, nchunks,
                   serial, positionInfo>>

\* the iterator goes out of scope
IterDrop ==
    /\ Running /\ HasIter
    /\ iter' = NoIter
    /\ iterInfo' = NoIterInfo
    /\ result' = "ok"
    /\ IF iter.DROP
       THEN LET w == drop_remaining([iter |-> iter, heap |-> heap, log |-> <<>>,
                                     ub |-> ub], MaxItems)
            IN /\ heap' = w.heap
               /\ dropped' = dropped \o w.log
               /\ ub' = w.ub
       ELSE UNCHANGED <<heap, dropped, ub>>
    /\ UNCHANGED <<config, loans, handle, arena, position, hist, gone,
                   nchunks, serial, positionInfo>>

\* IntoIterator for Arena: the arena is moved into the iterator, its destructor
\* will not run (ManuallyDrop), the iterator owns the chunks and the items.
IntoIter(a) ==
    /\ Running /\ handle[a] = "live" /\ kind[a] = "Arena" /\ ~HasIter
    /\ iter' = iter_ptr(arena[a], TRUE)
    /\ iterInfo' = [src |-> a, start |-> Len(hist[a]), skip |-> 0, out |-> <<>>,
                    done |-> FALSE, fresh |-> FALSE, epoch |-> Epoch(a),
                    psrc |-> 0, pepoch |-> 0, ptoken |-> FALSE]
    /\ handle' = [handle EXCEPT ![a] = "consumed"]
    /\ arena' = [arena EXCEPT ![a] = ManuallyDropArena_new]
    /\ gone' = [gone EXCEPT ![a] = @ \o hist[a]]
    /\ hist' = [hist EXCEPT ![a] = <<>>]
    /\ nchunks' = [nchunks EXCEPT ![a] = 0]
    /\ result' = "ok"
    /\ UNCHANGED <<config, loans, heap, position, dropped, serial, positionInfo, ub>>

\* Iter::as_position / IterMut::as_position
AsPosition ==
    /\ Running /\ HasIter /\ SUPPORTS_POSITIONS
    /\ position' = as_position(iter)
    /\ positionInfo' = [src |-> iterInfo.src, k |-> iterInfo.skip + Len(iterInfo.out),
                        epoch |-> iterInfo.epoch]
    /\ result' = "ok"
    /\ UNCHANGED <<config, loans, handle, arena, heap, iter, hist, gone, dropped, nchunks,
                   serial, iterInfo, ub>>

\* iter_at / iter_at_unchecked / iter_mut_at
IterAt(a) ==
    /\ Running /\ handle[a] = "live" /\ ~HasIter /\ HasPosition /\ SUPPORTS_POSITIONS
    /\ IF valid_rc_update(position.rc, arena[a].rc)
       THEN /\ iter' = iter_ptr_at(arena[a], position)
            /\ iterInfo' = [src |-> a, start |-> Len(hist[a]), skip |-> positionInfo.k,
                            out |-> <<>>, done |-> FALSE, fresh |-> FALSE,
                            epoch |-> Epoch(a), psrc |-> positionInfo.src,
                            pepoch |-> positionInfo.epoch,
                            ptoken |-> position.rc # Null]
            /\ result' = "ok"
       ELSE /\ result' = "panic"
            /\ UNCHANGED <<iter, iterInfo>>
    /\ UNCHANGED <<config, loans, handle, arena, heap, position, hist, gone, dropped,
                   nchunks, serial, positionInfo, ub>>

\* The effect of ManuallyDropArena::drop on arena a.
Released(a) ==
    LET r == ManuallyDropArena_drop(arena[a], heap) IN
    /\ arena' = [arena EXCEPT ![a] = r.arena]
    /\ heap' = r.heap
    /\ dropped' = dropped \o r.log
    /\ gone' = [gone EXCEPT ![a] = @ \o hist[a]]
    /\ hist' = [hist EXCEPT ![a] = <<>>]
    /\ nchunks' = [nchunks EXCEPT ![a] = 0]
    /\ ub' = (ub \/ \E i \in 1..Len(r.log) : r.log[i] = Uninit)
    /\ result' = "ok"

\* ManuallyDropArena::drop / manually_drop.  Its contract: no Iter or IterMut
\* of this arena exists.
ManuallyDrop(a) ==
    /\ Running /\ handle[a] = "live" /\ kind[a] = "ManuallyDropArena"
    /\ iterInfo.src # a
    /\ Released(a)
    /\ UNCHANGED <<config, loans, handle, iter, position, serial, iterInfo, positionInfo>>

\* Drop for Arena.  Iterators borrow the arena, so none is alive.
ArenaDrop(a) ==
    /\ Running /\ handle[a] = "live" /\ kind[a] = "Arena"
    /\ iterInfo.src # a
    /\ Released(a)
    /\ handle' = [handle EXCEPT ![a] = "dropped"]
    /\ UNCHANGED <<config, loans, iter, position, serial, iterInfo, positionInfo>>

\* Faulty variant, for comparison: the handle has a Drop impl that releases the arena.
HandleDrop_releases(a) ==
    /\ Running /\ handle[a] = "live" /\ kind[a] = "ManuallyDropArena"
    /\ LET r == ManuallyDropArena_drop(arena[a], heap) IN
       /\ arena' = [arena EXCEPT ![a] = r.arena]
       /\ heap' = r.heap
       /\ dropped' = dropped \o r.log
    /\ handle' = [handle EXCEPT ![a] = "dropped"]
    /\ result' = "ok"
    /\ UNCHANGED <<config, loans, iter, position, hist, gone, nchunks, serial, iterInfo,
                   positionInfo, ub>>

\* A ManuallyDropArena handle goes out of scope: there is no Drop impl, the
\* fields are dropped (an Arc reference, raw chunk pointers).
HandleDrop(a) ==
    /\ Running /\ handle[a] = "live" /\ kind[a] = "ManuallyDropArena"
    /\ handle' = [handle EXCEPT ![a] = "dropped"]
    /\ arena' = [arena EXCEPT ![a].rc = Null]
    /\ result' = "ok"
    /\ UNCHANGED <<config, loans, heap, iter, position, hist, gone, dropped, nchunks,
                   serial, iterInfo, positionInfo, ub>>

Ops(a) ==
    \/ Alloc(a)
    \/ TryAlloc(a)
    \/ Iter(a)
    \/ IterAt(a)
    \/ ManuallyDrop(a)
    \/ ArenaDrop(a)
    \/ HandleDrop(a)
    \/ IntoIter(a)

Next ==
    \/ Ops(1)
    \/ IterNext
    \/ IterDrop
    \/ AsPosition

Spec == Init /\ [][Next]_vars

\* Two manually-released arenas with positions enabled in the caller's hands,
\* as in the test bad_position: the caller fills them, iterates, snapshots,
\* releases and resumes positions on either.
InitAB == Init /\ SUPPORTS_POSITIONS /\ MUTABLE /\ CHUNK_SIZE > 0 /\ kind[1] = "ManuallyDropArena"

OpsAB(a) ==
    \/ Alloc(a)
    \/ Iter(a)
    \/ IterAt(a)
    \/ ManuallyDrop(a)

NextAB ==
    \/ \E a \in Arenas : OpsAB(a)
    \/ IterNext
    \/ IterDrop
    \/ AsPosition

SpecAB == InitAB /\ [][NextAB]_vars

\* ---- the safe interface of the scope-bound arena (arena.rs) ----
\*
\* The caller holds one Arena and uses its safe methods only.  What the borrow
\* checker admits is decided by the signatures: a method taking &self needs no
\* exclusive borrow of the arena to be alive, a method taking &mut self needs
\* no borrow of it to be alive, and what a method returns ('_ / 'a) keeps the
\* borrow it was made under alive for as long as the caller keeps it.

\* Faulty variant, for comparison: alloc and try_alloc carry no bound on Mutable.
Available_alloc_ungated(op) ==
    CASE op \in {"alloc", "try_alloc"} -> TRUE
      [] op = "iter" -> ~MUTABLE
      [] op = "iter_at" -> ~MUTABLE /\ SUPPORTS_POSITIONS
      [] op = "iter_mut_at" -> SUPPORTS_POSITIONS
      [] OTHER -> TRUE

\* The where-clauses of the methods of Arena.
Available(op) ==
    CASE op \in {"alloc", "try_alloc"} -> MUTABLE
      [] op = "iter" -> ~MUTABLE
      [] op = "iter_at" -> ~MUTABLE /\ SUPPORTS_POSITIONS
      [] op = "iter_mut_at" -> SUPPORTS_POSITIONS
      [] OTHER -> TRUE

\* A method taking &self can be called.
SharedBorrowOk(l) ==
    l.iter # "IterMut" /\ \A r \in l.refs : ~r.excl

\* Faulty variant, for comparison: iter_mut and iter_mut_at take &self.
ExclBorrowOk_shared(l) ==
    l.iter # "IterMut" /\ \A r \in l.refs : ~r.excl

\* A method taking &mut self can be called.
ExclBorrowOk(l) ==
    l.iter = "none" /\ l.refs = {} /\ l.others = 0

\* alloc / try_alloc (&self -> &mut T), alloc_shared / try_alloc_shared
\* (&self -> &T)
SafeAlloc(op) ==
    /\ Running /\ handle[1] = "live" /\ serial < MaxItems
    /\ Available(op) /\ SharedBorrowOk(loans)
    /\ \E p \in ChunkChoices(arena[1]), t \in RcChoices(arena[1]) :
         LET r == IF op \in {"alloc", "alloc_shared"}
                  THEN alloc_ptr(arena[1], heap, serial + 1, p, t)
                  ELSE try_alloc_ptr(arena[1], heap, serial + 1, p, t)
         IN /\ arena' = [arena EXCEPT ![1] = r.arena]
            /\ heap' = r.heap
            /\ result' = IF r.status = "some" THEN "ok" ELSE r.status
            /\ nchunks' = [nchunks EXCEPT
                  ![1] = @ + Cardinality(LiveChunks(r.heap)) - Cardinality(LiveChunks(heap))]
            /\ IF r.status = "some"
               THEN /\ serial' = serial + 1
                    /\ hist' = [hist EXCEPT ![1] = Append(@,
                                   [item |-> r.heap[r.ptr[1]].items[r.ptr[2]], ptr |-> r.ptr])]
                    /\ loans' = [loans EXCEPT !.refs = @ \cup
                                   {[item |-> r.heap[r.ptr[1]].items[r.ptr[2]],
                                     mut |-> op \in {"alloc", "try_alloc"},
                                     excl |-> FALSE]}]
               ELSE UNCHANGED <<serial, hist, loans>>
    /\ UNCHANGED <<config, handle, iter, position, gone, dropped, iterInfo,
                   positionInfo, ub>>

\* iter (&self -> Iter<'_>), iter_mut (&mut self -> IterMut<'_>)
SafeIter(op) ==
    /\ Running /\ handle[1] = "live" /\ ~HasIter
    /\ Available(op)
    /\ IF op = "iter" THEN SharedBorrowOk(loans) ELSE ExclBorrowOk(loans)
    /\ iter' = iter_ptr(arena[1], FALSE)
    /\ iterInfo' = [src |-> 1, start |-> Len(hist[1]), skip |-> 0, out |-> <<>>,
                    done |-> FALSE, fresh |-> TRUE, epoch |-> Epoch(1),
                    psrc |-> 0, pepoch |-> 0, ptoken |-> FALSE]
    /\ loans' = [loans EXCEPT !.iter = IF op = "iter" THEN "Iter" ELSE "IterMut"]
    /\ result' = "ok"
    /\ UNCHANGED <<config, handle, arena, heap, position, hist, gone, dropped,
                   nchunks, serial, positionInfo, ub>>

\* iter_at (&self -> Iter<'_>), iter_mut_at (&mut self -> IterMut<'_>)
SafeIterAt(op) ==
    /\ Running /\ handle[1] = "live" /\ ~HasIter /\ HasPosition
    /\ Available(op)
    /\ IF op = "iter_at" THEN SharedBorrowOk(loans) ELSE ExclBorrowOk(loans)
    /\ IF valid_rc_update(position.rc, arena[1].rc)
       THEN /\ iter' = iter_ptr_at(arena[1], position)
            /\ iterInfo' = [src |-> 1, start |-> Len(hist[1]), skip |-> positionInfo.k,
                            out |-> <<>>, done |-> FALSE, fresh |-> FALSE,
                            epoch |-> Epoch(1), psrc |-> positionInfo.src,
                            pepoch |-> positionInfo.epoch,
                            ptoken |-> position.rc # Null]
            /\ loans' = [loans EXCEPT !.iter = IF op = "iter_at" THEN "Iter" ELSE "IterMut"]
            /\ result' = "ok"
       ELSE /\ result' = "panic"
            /\ UNCHANGED <<iter, iterInfo, loans>>
    /\ UNCHANGED <<config, handle, arena, heap, position, hist, gone, dropped,
                   nchunks, serial, positionInfo, ub>>

\* Iter::clone: one more Iter under the same borrow.
SafeIterClone ==
    /\ Running /\ HasIter /\ loans.iter = "Iter" /\ loans.others < MaxClones
    /\ loans' = [loans EXCEPT !.others = @ + 1]
    /\ result' = "ok"
    /\ UNCHANGED <<config, handle, arena, heap, iter, position, hist, gone, dropped,
                   nchunks, serial, iterInfo, positionInfo, ub>>

\* Iter::next (-> &'a T), IterMut::next (-> &'a mut T): the item yielded lives
\* as long as the borrow the iterator was made under.
SafeNext ==
    /\ Running /\ HasIter
    /\ LET r == IterPtr_next(iter, heap) IN
       /\ iter' = r.iter
       /\ heap' = r.heap
       /\ iterInfo' = IF r.item = NullPtr
                      THEN [iterInfo EXCEPT !.done = TRUE]
                      ELSE [iterInfo EXCEPT !.out = Append(@, heap[r.item[1]].items[r.item[2]])]
       /\ loans' = IF r.item = NullPtr
                   THEN loans
                   ELSE [loans EXCEPT !.refs = @ \cup
                           {[item |-> heap[r.item[1]].items[r.item[2]],
                             mut |-> loans.iter = "IterMut",
                             excl |-> loans.iter = "IterMut"]}]
       /\ result' = "ok"
       /\ ub' = (ub \/ Deref(heap, iter.chunk)
                    \/ (r.item # NullPtr /\ (Deref(heap, r.item[1])
                                             \/ heap[r.item[1]].items[r.item[2]] = Uninit)))
    /\ UNCHANGED <<config, handle, arena, position, hist, gone, dropped, nchunks,
                   serial, positionInfo>>

\* The iterator, a clone of it, or an item reference goes out of scope.
SafeIterDrop ==
    /\ Running /\ HasIter
    /\ iter' = NoIter
    /\ iterInfo' = NoIterInfo
    /\ loans' = [loans EXCEPT !.iter = "none"]
    /\ result' = "ok"
    /\ UNCHANGED <<config, handle, arena, heap, position, hist, gone, dropped,
                   nchunks, serial, positionInfo, ub>>

SafeCloneDrop ==
    /\ Running /\ loans.others > 0
    /\ loans' = [loans EXCEPT !.others = @ - 1]
    /\ result' = "ok"
    /\ UNCHANGED <<config, handle, arena, heap, iter, position, hist, gone, dropped,
                   nchunks, serial, iterInfo, positionInfo, ub>>

SafeRefDrop ==
    /\ Running
    /\ \E r \in loans.refs : loans' = [loans EXCEPT !.refs = @ \ {r}]
    /\ result' = "ok"
    /\ UNCHANGED <<config, handle, arena, heap, iter, position, hist, gone, dropped,
                   nchunks, serial, iterInfo, positionInfo, ub>>

InitSafe == Init /\ kind[1] = "Arena"

NextSafe ==
    \/ \E op \in {"alloc", "try_alloc", "alloc_shared", "try_alloc_shared"} : SafeAlloc(op)
    \/ \E op \in {"iter", "iter_mut"} : SafeIter(op)
    \/ \E op \in {"iter_at", "iter_mut_at"} : SafeIterAt(op)
    \/ SafeIterClone
    \/ SafeNext
    \/ AsPosition
    \/ SafeIterDrop
    \/ SafeCloneDrop
    \/ SafeRefDrop

SpecSafe == InitSafe /\ [][NextSafe]_vars

\* ---- the minimal design (inner.rs, chunk/mod.rs, chunk/memory.rs) ----
\*
\* An ArenaInner has a tail and tail_len only, and each chunk holds an owning
\* link to the chunk created before it: here heap maps a chunk address to
\* [live, prev, items], and arena[a] is [tail, tail_len].  The chunk size is
\* positive.

\* What ChunkMemory's destructor leaves at an address.
ChunkMemory_free == [live |-> FALSE, prev |-> Null, items |-> [i \in Slots |-> Uninit]]

\* Drop for ChunkMemory (and so for Chunk): the block is deallocated; neither
\* the items nor the chunk its prev field names are touched.
ChunkMemory_drop(h, c) == [h EXCEPT ![c] = ChunkMemory_free]

\* Chunk::new: `p` is what alloc::alloc::alloc returned (Null: failure).  On
\* failure `?` returns early and `prev`, passed by value, is dropped.
Chunk_new(h, prev, p) ==
    IF p = Null
    THEN [chunk |-> Null, heap |-> IF prev # Null THEN ChunkMemory_drop(h, prev) ELSE h]
    ELSE [chunk |-> p,
          heap |-> [h EXCEPT ![p] = [live |-> TRUE, prev |-> prev,
                                     items |-> [i \in Slots |-> Uninit]]]]

\* Chunk::into_prev: reads the link, then the chunk's memory is dropped.
Chunk_into_prev(h, c) == [prev |-> h[c].prev, heap |-> ChunkMemory_drop(h, c)]

\* Chunk::drop_item
Chunk_drop_item(w, c, i) ==
    [heap |-> [w.heap EXCEPT ![c].items[i] = Uninit],
     log |-> Append(w.log, w.heap[c].items[i])]

RECURSIVE Chunk_drop_rev(_, _, _)
\* for i in (0..n).rev(): drop_item(i)
Chunk_drop_rev(w, c, n) ==
    IF n = 0 THEN w ELSE Chunk_drop_rev(Chunk_drop_item(w, c, n - 1), c, n - 1)

\* Chunk::drop_all
Chunk_drop_all(w, c) == Chunk_drop_rev(w, c, CHUNK_SIZE)

\* ArenaInner::new
ArenaInner_new == [tail |-> Null, tail_len |-> CHUNK_SIZE]

\* ArenaInner::ensure_free_space.  panic: expect("memory allocation failed"),
\* reached with self.tail already taken.
ArenaInner_ensure_free_space(ar, h, p) ==
    IF ar.tail_len < CHUNK_SIZE
    THEN [panic |-> FALSE, arena |-> ar, heap |-> h]
    ELSE LET n == Chunk_new(h, ar.tail, p)
         IN IF n.chunk = Null
            THEN [panic |-> TRUE, arena |-> [ar EXCEPT !.tail = Null], heap |-> n.heap]
            ELSE [panic |-> FALSE, arena |-> [tail |-> n.chunk, tail_len |-> 0],
                  heap |-> n.heap]

\* ArenaInner::alloc
ArenaInner_alloc(ar, h, value, p) ==
    LET e == ArenaInner_ensure_free_space(ar, h, p) IN
    IF e.panic
    THEN [status |-> "panic", arena |-> e.arena, heap |-> e.heap, ptr |-> NullPtr]
    ELSE LET item == <<e.arena.tail, e.arena.tail_len>>
         IN [status |-> "some",
             arena |-> [e.arena EXCEPT !.tail_len = @ + 1],
             heap |-> [e.heap EXCEPT ![item[1]].items[item[2]] = value],
             ptr |-> item]

RECURSIVE ArenaInner_drop_others(_, _)
\* The loop of ArenaInner::drop over the chunks before the tail (lines 109-118).
ArenaInner_drop_others(w, prev) ==
    IF prev = Null THEN w
    ELSE LET d == Chunk_drop_all(w, prev)
             t == Chunk_into_prev(d.heap, prev)
         IN ArenaInner_drop_others([heap |-> t.heap, log |-> d.log], t.prev)

\* ArenaInner::drop
ArenaInner_drop(ar, h) ==
    IF ar.tail = Null
    THEN [arena |-> ar, heap |-> h, log |-> <<>>]
    ELSE LET d == Chunk_drop_rev([heap |-> h, log |-> <<>>], ar.tail, ar.tail_len)
             t == Chunk_into_prev(d.heap, ar.tail)
             w == ArenaInner_drop_others([heap |-> t.heap, log |-> d.log], t.prev)
         IN [arena |-> [ar EXCEPT !.tail = Null], heap |-> w.heap, log |-> w.log]

\* What the global allocator may answer when ensure_free_space asks for a
\* chunk: failure, or a free block (no pointer outlives its chunk here, so the
\* lowest free address stands for all).
InnerChunkChoices(ar) ==
    IF ar.tail_len < CHUNK_SIZE \/ FreeChunks = {} THEN {Null}
    ELSE {Null, MinOf(FreeChunks)}

InitInner ==
    /\ CHUNK_SIZE \in 1..MaxChunkSize
    /\ SUPPORTS_POSITIONS = FALSE
    /\ MUTABLE = TRUE
    /\ kind = [a \in Arenas |-> "ArenaInner"]
    /\ handle = [a \in Arenas |-> "live"]
    /\ arena = [a \in Arenas |-> ArenaInner_new]
    /\ heap = [c \in ChunkAddrs |-> ChunkMemory_free]
    /\ iter = NoIter
    /\ position = NoPosition
    /\ result = "ok"
    /\ hist = [a \in Arenas |-> <<>>]
    /\ gone = [a \in Arenas |-> <<>>]
    /\ dropped = <<>>
    /\ nchunks = [a \in Arenas |-> 0]
    /\ serial = 0
    /\ iterInfo = NoIterInfo
    /\ positionInfo = NoPositionInfo
    /\ ub = FALSE
    /\ loans = NoLoans
    /\ memory = NoMemory

\* alloc.  A panic unwinds; the caller may catch it and go on, or let the
\* arena be destroyed.
InnerAlloc(a) ==
    /\ handle[a] = "live" /\ serial < MaxItems
    /\ \E p \in InnerChunkChoices(arena[a]) :
         LET r == ArenaInner_alloc(arena[a], heap, serial + 1, p) IN
         /\ arena' = [arena EXCEPT ![a] = r.arena]
         /\ heap' = r.heap
         /\ result' = IF r.status = "some" THEN "ok" ELSE r.status
         /\ nchunks' = [nchunks EXCEPT ![a] = IF p # Null THEN @ + 1 ELSE @]
         /\ IF r.status = "some"
            THEN /\ serial' = serial + 1
                 /\ hist' = [hist EXCEPT
                               ![a] = Append(@, [item |-> r.heap[r.ptr[1]].items[r.ptr[2]],
                                                 ptr |-> r.ptr])]
            ELSE UNCHANGED <<serial, hist>>
    /\ UNCHANGED <<config, loans, handle, iter, position, gone, dropped, iterInfo,
                   positionInfo, ub>>

\* Drop for ArenaInner: the arena goes out of scope.
InnerDrop(a) ==
    /\ handle[a] = "live"
    /\ LET r == ArenaInner_drop(arena[a], heap) IN
       /\ arena' = [arena EXCEPT ![a] = r.arena]
       /\ heap' = r.heap
       /\ dropped' = dropped \o r.log
       /\ ub' = (ub \/ \E i \in 1..Len(r.log) : r.log[i] = Uninit)
    /\ handle' = [handle EXCEPT ![a] = "dropped"]
    /\ gone' = [gone EXCEPT ![a] = @ \o hist[a]]
    /\ hist' = [hist EXCEPT ![a] = <<>>]
    /\ nchunks' = [nchunks EXCEPT ![a] = 0]
    /\ result' = "ok"
    /\ UNCHANGED <<config, loans, iter, position, serial, iterInfo, positionInfo>>

NextInner ==
    \/ \E a \in Arenas : InnerAlloc(a)
    \/ \E a \in Arenas : InnerDrop(a)

SpecInner == InitInner /\ [][NextInner]_vars

\* ---- the chunk memory layout of the minimal design (chunk/memory.rs) ----
\*
\* A chunk's block holds the link to the previous chunk (an Option<Chunk>, one
\* pointer) and the storage of CHUNK_SIZE items.  Sizes are in bytes, on a
\* target with 16-bit pointers; memory holds size_of::<T>(), align_of::<T>()
\* and the layout once ChunkMemory::new has computed it.

\* mem::size_of::<usize>()
PtrBytes == 2
USIZE_MAX == 2 ^ (8 * PtrBytes) - 1
ISIZE_MAX == 2 ^ (8 * PtrBytes - 1) - 1

\* bounds of the item types and capacities drawn
MaxAlignLog == 3
MaxSizeUnits == 3
MaxCapacity == 4

\* None of checked_mul / checked_add, Err of Layout::from_size_align.
Overflow == -1

NoLayout == [status |-> "none", size |-> 0, align |-> 1]

\* Faulty variant, for comparison: the product wraps around.
wrapping_mul(a, b) == (a * b) % (USIZE_MAX + 1)

\* usize::checked_mul
checked_mul(a, b) == IF a * b > USIZE_MAX THEN Overflow ELSE a * b

\* usize::checked_add
checked_add(a, b) == IF a + b > USIZE_MAX THEN Overflow ELSE a + b

\* Layout::from_size_align, for an alignment that is a power of two: the size
\* rounded up to the alignment must not exceed isize::MAX.  The size is kept
\* as given.
from_size_align(size, align) ==
    IF size > ISIZE_MAX - (align - 1) THEN Overflow ELSE size

\* ChunkMemory::prev_size / prev_align
ChunkMemory_prev_size == PtrBytes
ChunkMemory_prev_align == PtrBytes

\* ChunkMemory::storage_size; Overflow: expect("size overflow") panics.
ChunkMemory_storage_size(m, C) == checked_mul(m.size_of_T, C)

\* ChunkMemory::prev_offset
ChunkMemory_prev_offset(m, C) ==
    IF ChunkMemory_prev_align >= m.align_of_T THEN 0 ELSE ChunkMemory_storage_size(m, C)

\* ChunkMemory::storage_offset
ChunkMemory_storage_offset(m, C) ==
    IF ChunkMemory_prev_offset(m, C) = 0 THEN ChunkMemory_prev_size ELSE 0

\* ChunkMemory::align
ChunkMemory_align(m) ==
    IF m.align_of_T >= ChunkMemory_prev_align THEN m.align_of_T ELSE ChunkMemory_prev_align

\* ChunkMemory::layout; status "panic": expect or one of the two unwraps failed.
ChunkMemory_layout(m, C) ==
    LET storage == ChunkMemory_storage_size(m, C)
        total == IF storage = Overflow THEN Overflow
                 ELSE checked_add(ChunkMemory_prev_size, storage)
        size == IF total = Overflow THEN Overflow
                ELSE from_size_align(total, ChunkMemory_align(m))
    IN IF size = Overflow
       THEN [status |-> "panic", size |-> 0, align |-> ChunkMemory_align(m)]
       ELSE [status |-> "ok", size |-> size, align |-> ChunkMemory_align(m)]

\* The item types: alignment a power of two, size a multiple of the alignment
\* and at most isize::MAX; small sizes and sizes next to a half and a quarter
\* of the address space.
ItemTypes ==
    {t \in [size_of_T : 0..ISIZE_MAX, align_of_T : {2 ^ k : k \in 0..MaxAlignLog}] :
        \E k \in 0..MaxSizeUnits :
            \/ t.size_of_T = k * t.align_of_T
            \/ t.size_of_T = (ISIZE_MAX + 1) - k * t.align_of_T
            \/ t.size_of_T = (ISIZE_MAX + 1) \div 2 - k * t.align_of_T}

InitLayout ==
    /\ CHUNK_SIZE \in 0..MaxCapacity
    /\ SUPPORTS_POSITIONS = FALSE
    /\ MUTABLE = TRUE
    /\ kind = [a \in Arenas |-> "ArenaInner"]
    /\ handle = [a \in Arenas |-> "live"]
    /\ arena = [a \in Arenas |-> ArenaInner_new]
    /\ heap = [c \in ChunkAddrs |-> ChunkMemory_free]
    /\ iter = NoIter
    /\ position = NoPosition
    /\ result = "ok"
    /\ hist = [a \in Arenas |-> <<>>]
    /\ gone = [a \in Arenas |-> <<>>]
    /\ dropped = <<>>
    /\ nchunks = [a \in Arenas |-> 0]
    /\ serial = 0
    /\ iterInfo = NoIterInfo
    /\ positionInfo = NoPositionInfo
    /\ ub = FALSE
    /\ loans = NoLoans
    /\ \E t \in ItemTypes :
         memory = [size_of_T |-> t.size_of_T, align_of_T |-> t.align_of_T,
                   layout |-> NoLayout]

\* ChunkMemory::new up to its assertion: the layout is computed.
ChunkMemoryNew ==
    /\ memory.layout.status = "none"
    /\ LET l == ChunkMemory_layout(memory, CHUNK_SIZE) IN
       /\ memory' = [memory EXCEPT !.layout = l]
       /\ result' = IF l.status = "ok" /\ l.size > 0 THEN "ok" ELSE "panic"
    /\ UNCHANGED <<CHUNK_SIZE, SUPPORTS_POSITIONS, MUTABLE, kind, handle, arena, heap,
                   iter, position, hist, gone, dropped, nchunks, serial, iterInfo,
                   positionInfo, ub, loans>>

NextLayout == ChunkMemoryNew

SpecLayout == InitLayout /\ [][NextLayout]_vars

\* ---- properties ----

\* The items of arena a, in allocation order.
Items(a) == [i \in 1..Len(hist[a]) |-> hist[a][i].item]
\* How many times the destructor of item x ran.
DropCount(x) == Cardinality({i \in 1..Len(dropped) : dropped[i] = x})
CeilDiv(n, c) == (n + c - 1) \div c
\* The chunks reached from chunk c by following next links.
RECURSIVE Chain(_, _)
Chain(c, n) == IF c = Null \/ n = 0 THEN <<>> ELSE <<c>> \o Chain(heap[c].next, n - 1)
\* The chain from head ends in tail: no chunk allocation has failed since
\* construction / the last release.
Intact(a) ==
    IF arena[a].head = Null THEN arena[a].tail = Null
    ELSE LET ch == Chain(arena[a].head, NumChunkAddrs)
         IN arena[a].tail # Null /\ ch[Len(ch)] = arena[a].tail

\* No operation dereferences freed memory or an uninitialized slot.
NoUndefinedBehaviour == ~ub

\* C1: a fresh non-consuming iterator that has reached its end has yielded
\* exactly the items allocated before it was created, each once, in allocation
\* order.
C1_FreshIterationYieldsAll ==
    (HasIter /\ iterInfo.fresh /\ iterInfo.done)
        => iterInfo.out = SubSeq(Items(iterInfo.src), 1, iterInfo.start)

\* C1 holds as long as no chunk allocation has failed.
C1_WhileIntact ==
    (HasIter /\ iterInfo.fresh /\ iterInfo.done /\ Intact(iterInfo.src))
        => iterInfo.out = SubSeq(Items(iterInfo.src), 1, iterInfo.start)

\* C2: len() is the number of successful allocations since construction / the
\* last release, and is_empty() holds exactly when that number is 0.
C2_LenCountsAllocations ==
    \A a \in Arenas :
        /\ len(a) = Len(hist[a])
        /\ is_empty(a) <=> (Len(hist[a]) = 0)

C2_Witness == len(1) = 3 /\ ~is_empty(1) /\ nchunks[1] >= 2

\* C3: the number of chunk-allocation events since construction / the last
\* release is ceil(N / C) for N successful allocations.
C3_ChunkCount ==
    (Running /\ CHUNK_SIZE > 0) => \A a \in Arenas : nchunks[a] = CeilDiv(Len(hist[a]), CHUNK_SIZE)

C3_Witness ==
    /\ CHUNK_SIZE = 2 /\ Len(hist[1]) = 3 /\ nchunks[1] = 2
    /\ Len(gone[1]) = 0

\* The items arena a held when it was released / destroyed.
Gone(a) == {gone[a][i].item : i \in 1..Len(gone[a])}
\* The items arena a holds.
Held(a) == {hist[a][i].item : i \in 1..Len(hist[a])}

\* C4: once a scope-bound arena has been destroyed, the destructor of each
\* item it held has run exactly once.
C4_ArenaDropDestroysEachOnce ==
    \A a \in Arenas :
        (kind[a] = "Arena" /\ handle[a] = "dropped")
            => \A x \in Gone(a) : DropCount(x) = 1

\* C4 holds as long as no chunk allocation failed before the destruction:
\* no item is ever destroyed twice, and none is omitted while the chain is
\* intact.
C4_WhileIntact ==
    /\ [](\A x \in 1..MaxItems : DropCount(x) <= 1)
    /\ [][\A a \in Arenas :
            (Intact(a) /\ handle[a] = "live" /\ handle'[a] = "dropped" /\ kind[a] = "Arena")
                => \A x \in Held(a) : DropCount(x)' = 1]_vars

\* C5: release of a manually-released arena has destroyed each item the
\* arena held exactly once, and no destructor of an item it still holds
\* has run.
C5_ReleaseDestroysEachOnce ==
    \A a \in Arenas :
        kind[a] = "ManuallyDropArena"
            => /\ \A x \in Gone(a) : DropCount(x) = 1
               /\ \A x \in Held(a) : DropCount(x) = 0

\* C6: after a manually-released arena handle was destroyed without release,
\* no destructor of an item it held has run, none of its chunks was freed and
\* every reference it returned still designates its item.
C6_HandleDropLeaks ==
    \A a \in Arenas :
        (kind[a] = "ManuallyDropArena" /\ handle[a] = "dropped")
            => \A i \in 1..Len(hist[a]) :
                 LET e == hist[a][i] IN
                 /\ DropCount(e.item) = 0
                 /\ heap[e.ptr[1]].live
                 /\ heap[e.ptr[1]].items[e.ptr[2]] = e.item

C6_Witness ==
    /\ kind[1] = "ManuallyDropArena" /\ handle[1] = "dropped"
    /\ Len(hist[1]) = 3 /\ nchunks[1] >= 2

\* C7: an iterator resumed on the arena its position came from, with no
\* release in between, that has reached its end has yielded exactly the items
\* from the position on (allocation indices k .. N+M-1), in allocation order.
C7_ResumeYieldsRest ==
    (HasIter /\ ~iterInfo.fresh /\ iterInfo.done
        /\ iterInfo.psrc = iterInfo.src /\ iterInfo.pepoch = iterInfo.epoch)
        => iterInfo.out = SubSeq(Items(iterInfo.src), iterInfo.skip + 1, iterInfo.start)

\* C7 holds as long as no chunk allocation has failed.
C7_WhileIntact ==
    (HasIter /\ ~iterInfo.fresh /\ iterInfo.done /\ Intact(iterInfo.src)
        /\ iterInfo.psrc = iterInfo.src /\ iterInfo.pepoch = iterInfo.epoch)
        => iterInfo.out = SubSeq(Items(iterInfo.src), iterInfo.skip + 1, iterInfo.start)

\* C10: until the arena is released, every reference an allocation returned
\* still designates a slot of a live chunk that holds the value written.
C10_ItemsNeverRelocate ==
    \A a \in Arenas : \A i \in 1..Len(hist[a]) :
        LET e == hist[a][i] IN
        /\ heap[e.ptr[1]].live
        /\ heap[e.ptr[1]].items[e.ptr[2]] = e.item

C10_Witness ==
    /\ Len(hist[1]) = 3 /\ nchunks[1] >= 2
    /\ HasIter /\ Len(iterInfo.out) >= 2 /\ HasPosition /\ ~iterInfo.fresh

\* C8 as stated: no iterator is ever obtained by resuming, on one arena, a
\* position snapshotted from another.
C8_ForeignPositionRejected ==
    (HasIter /\ ~iterInfo.fresh) => iterInfo.psrc = iterInfo.src

\* C8 amended: no iterator is ever obtained by resuming, on one arena, a
\* position that carries an identity token and was snapshotted from another.
C8_ForeignTokenRejected ==
    (HasIter /\ ~iterInfo.fresh /\ iterInfo.ptoken) => iterInfo.psrc = iterInfo.src

\* A position of arena 1 that carries a token was resumed on arena 2, which
\* has items and a token of its own, and the call panicked.
C8_Witness ==
    /\ result = "panic" /\ ~HasIter
    /\ positionInfo.src = 1 /\ position.rc # Null /\ position.chunk # Null
    /\ handle[1] = "live" /\ arena[1].rc = position.rc
    /\ handle[2] = "live" /\ arena[2].rc # Null /\ Len(hist[2]) >= 2

\* C9 as stated: no iterator is ever obtained by resuming a position on its
\* source arena after that arena was released.
C9_StalePositionRejected ==
    (HasIter /\ ~iterInfo.fresh /\ iterInfo.psrc = iterInfo.src)
        => iterInfo.pepoch = iterInfo.epoch

\* C9 amended: no iterator is ever obtained by resuming a position that
\* carries an identity token on its source arena after that arena was released.
C9_StaleTokenRejected ==
    (HasIter /\ ~iterInfo.fresh /\ iterInfo.psrc = iterInfo.src /\ iterInfo.ptoken)
        => iterInfo.pepoch = iterInfo.epoch

\* A position with a token was resumed on its source arena after the arena
\* was released and reused, and the call panicked.
C9_Witness ==
    /\ result = "panic" /\ ~HasIter
    /\ positionInfo.src = 1 /\ position.rc # Null
    /\ positionInfo.epoch < Epoch(1)
    /\ handle[1] = "live" /\ arena[1].rc # Null /\ Len(hist[1]) >= 1

\* C11: a release of an arena that has allocated nothing since its construction
\* / its last release (by ManuallyDropArena::drop or by the destruction of a
\* scope-bound arena) runs no destructor, frees no chunk and leaves the fields
\* of the arena as they were.
C11_ReleaseIdempotent ==
    [][\A a \in Arenas :
         ((ManuallyDrop(a) \/ ArenaDrop(a)) /\ hist[a] = <<>>)
            => (arena'[a] = arena[a] /\ heap' = heap /\ dropped' = dropped)]_vars

\* A scope-bound arena was destroyed, and so released, having allocated
\* nothing; no destructor has run and no chunk exists.
C11_Witness ==
    /\ kind[1] = "Arena" /\ handle[1] = "dropped"
    /\ gone[1] = <<>> /\ serial = 0 /\ CHUNK_SIZE > 0
    /\ dropped = <<>> /\ LiveChunks(heap) = {}

\* C12: a manually-released arena that was released is as a freshly
\* constructed one: with nothing allocated since, its fields are those of
\* new(); after k further allocations len() = k, ceil(k / C) chunks were
\* allocated since the release, and a fresh iterator that has reached its end
\* has yielded exactly the k new values in order.
C12_ReuseAfterRelease ==
    \A a \in Arenas :
        (kind[a] = "ManuallyDropArena" /\ handle[a] = "live" /\ Running /\ Epoch(a) >= 1)
            => /\ (hist[a] = <<>>) => (arena[a] = ManuallyDropArena_new)
               /\ len(a) = Len(hist[a])
               /\ (CHUNK_SIZE > 0) => (nchunks[a] = CeilDiv(Len(hist[a]), CHUNK_SIZE))
               /\ (HasIter /\ iterInfo.src = a /\ iterInfo.fresh /\ iterInfo.done
                      /\ iterInfo.epoch = Epoch(a))
                    => iterInfo.out = SubSeq(Items(a), 1, iterInfo.start)

\* C13: with chunk size 0 every allocation entry point panics, in every
\* reachable state and whatever the allocator would answer, returning neither
\* a reference nor None and leaving the arena and the heap as they were; no
\* chunk is ever allocated.
C13_ZeroChunkSizePanics ==
    (CHUNK_SIZE = 0) =>
        /\ result \in {"ok", "panic"}
        /\ \A c \in ChunkAddrs : ~heap[c].live
        /\ \A a \in Arenas :
             /\ arena[a] = ManuallyDropArena_new /\ hist[a] = <<>> /\ nchunks[a] = 0
             /\ \A p \in ChunkAddrs \cup {Null}, t \in RcAddrs \cup {Null} :
                  LET r == try_alloc_ptr(arena[a], heap, serial + 1, p, t)
                      q == alloc_ptr(arena[a], heap, serial + 1, p, t)
                  IN /\ r.status = "panic" /\ r.arena = arena[a] /\ r.heap = heap
                     /\ r.ptr = NullPtr
                     /\ q.status = "panic" /\ q.arena = arena[a] /\ q.heap = heap
                     /\ q.ptr = NullPtr

C13_Witness == CHUNK_SIZE = 0 /\ result = "panic" /\ handle[1] = "live"

\* C14: in every state a running program can call an allocation entry point
\* in (chunk size positive): if a chunk is needed and the allocator supplies
\* none, try_alloc_ptr returns None and alloc_ptr calls handle_alloc_error; if
\* no chunk is needed, both succeed whatever the allocator would answer.
C14_ChunkAllocationFailure ==
    \A a \in Arenas :
        (Running /\ handle[a] = "live" /\ CHUNK_SIZE > 0)
            => /\ tail_is_full(arena[a])
                    => \A t \in RcAddrs \cup {Null} :
                         /\ try_alloc_ptr(arena[a], heap, serial + 1, Null, t).status = "none"
                         /\ alloc_ptr(arena[a], heap, serial + 1, Null, t).status = "abort"
               /\ ~tail_is_full(arena[a])
                    => \A p \in ChunkAddrs \cup {Null}, t \in RcAddrs \cup {Null} :
                         /\ try_alloc_ptr(arena[a], heap, serial + 1, p, t).status = "some"
                         /\ alloc_ptr(arena[a], heap, serial + 1, p, t).status = "some"

\* try_alloc has just returned None on an arena that holds items.
C14_Witness ==
    /\ result = "none" /\ handle[1] = "live" /\ Len(hist[1]) >= 1
    /\ CHUNK_SIZE > 0

\* The items a scope-bound arena held when into_iter consumed it.
Consumed(a) == [i \in 1..Len(gone[a]) |-> gone[a][i].item]

\* C15: a consuming iterator that has reached its end has yielded exactly the
\* items the arena held, each once, in allocation order; no destructor of a
\* yielded item has run and the arena stays consumed.
C15_IntoIterYieldsAll ==
    (HasIter /\ iter.DROP /\ iterInfo.done)
        => /\ iterInfo.out = Consumed(iterInfo.src)
           /\ \A i \in 1..Len(iterInfo.out) : DropCount(iterInfo.out[i]) = 0
           /\ handle[iterInfo.src] = "consumed"

\* C16: when a consuming iterator is destroyed after yielding j of N items, the
\* destructor of each item it did not yield has run exactly once, that of no
\* item it yielded has run, and no chunk is left allocated.
C16_AbandonedIntoIterCleansUp ==
    [][(HasIter /\ iter.DROP /\ ~HasIter')
         => /\ \A x \in Gone(iterInfo.src) :
                 DropCount(x)' = IF \E i \in 1..Len(iterInfo.out) : iterInfo.out[i] = x
                                 THEN 0 ELSE 1
            /\ LiveChunks(heap') = {}]_vars

\* C19: every chunk of the chain from head other than the tail has all its
\* slots initialized; the tail has exactly its first tail_len slots
\* initialized.
C19_ChunksInitialized ==
    \A a \in Arenas :
        LET ar == arena[a]
            ch == Chain(ar.head, NumChunkAddrs)
        IN /\ \A i \in 1..Len(ch) :
                 ch[i] # ar.tail => \A k \in Slots : heap[ch[i]].items[k] # Uninit
           /\ ar.tail # Null
                 => \A k \in Slots : (heap[ar.tail].items[k] # Uninit) <=> (k < ar.tail_len)

C19_Witness ==
    /\ CHUNK_SIZE = 2 /\ Len(hist[1]) = 3 /\ Intact(1)
    /\ arena[1].head # arena[1].tail /\ arena[1].tail_len = 1

\* C20: between operations of a running program, 0 <= tail_len <= C, the tail
\* is absent only when len is 0, tail_len < C implies the tail is present, and
\* a present tail holds at least one item.
C20_TailInvariant ==
    \A a \in Arenas :
        (Running /\ handle[a] = "live")
            => /\ 0 <= arena[a].tail_len /\ arena[a].tail_len <= CHUNK_SIZE
               /\ (arena[a].tail = Null) => (arena[a].len = 0)
               /\ (arena[a].tail_len < CHUNK_SIZE) => (arena[a].tail # Null)
               /\ (arena[a].tail # Null) => (arena[a].tail_len >= 1)

\* C17 as stated: on an arena with mutable access disabled no reference from
\* alloc / try_alloc is mutable and no IterMut (iter_mut / iter_mut_at) exists.
C17_MutableAccessGate ==
    ~MUTABLE => (loans.iter # "IterMut" /\ \A r \in loans.refs : ~r.mut)

\* C17 amended: with mutable access disabled every mutable reference comes from
\* an IterMut (none from alloc / try_alloc); with mutable access enabled no
\* safe shared iterator (iter / iter_at) exists; alloc_shared,
\* try_alloc_shared and iter_mut are available under both settings, and
\* iter_mut_at wherever positions are.
C17_AllocAndIterGate ==
    /\ ~MUTABLE => \A r \in loans.refs : r.mut => r.excl
    /\ ~MUTABLE => (~Available("alloc") /\ ~Available("try_alloc"))
    /\ MUTABLE => (loans.iter # "Iter" /\ loans.others = 0)
    /\ Available("alloc_shared") /\ Available("try_alloc_shared") /\ Available("iter_mut")
    /\ Available("iter_mut_at") <=> SUPPORTS_POSITIONS

\* With mutable access disabled: an IterMut is alive and has yielded a mutable
\* reference to an item that alloc_shared allocated.
C17_Witness ==
    /\ ~MUTABLE /\ loans.iter = "IterMut" /\ Len(hist[1]) >= 2
    /\ \E r \in loans.refs : r.mut /\ r.excl

\* The items the iterator in the caller's hands has not passed yet.
Remaining ==
    IF HasIter
    THEN {Items(1)[i] : i \in (iterInfo.skip + Len(iterInfo.out) + 1)..Len(hist[1])}
    ELSE {}

\* C18 as stated: while an IterMut is alive no item reference and no other
\* iterator is; while an Iter is alive no mutable item reference is; and no
\* item is reachable through a mutable reference or an IterMut and through
\* anything else at the same time.
C18_NoReferenceBesideIterMut ==
    /\ loans.iter = "IterMut" => (loans.others = 0 /\ loans.refs = {})
    /\ (loans.iter = "Iter" \/ loans.others > 0) => \A r \in loans.refs : ~r.mut
    /\ \A x \in Held(1) :
         LET to == {r \in loans.refs : r.item = x}
             n == Cardinality(to) + (IF x \in Remaining THEN 1 ELSE 0) + loans.others
         IN ((\E r \in to : r.mut) \/ (loans.iter = "IterMut" /\ x \in Remaining))
                => n = 1

\* C18 amended: while an IterMut is alive no other iterator is, and the only item
\* references alive are those it yielded itself; while an Iter is alive no
\* mutable item reference is; and no item is reachable through a mutable
\* reference or an IterMut and through anything else at the same time.
C18_NoMutableAliasing ==
    /\ loans.iter = "IterMut"
         => /\ loans.others = 0
            /\ \A r \in loans.refs :
                  r.excl /\ \E i \in 1..Len(iterInfo.out) : iterInfo.out[i] = r.item
    /\ (loans.iter = "Iter" \/ loans.others > 0) => \A r \in loans.refs : ~r.mut
    /\ \A x \in Held(1) :
         LET to == {r \in loans.refs : r.item = x}
             n == Cardinality(to) + (IF x \in Remaining THEN 1 ELSE 0) + loans.others
         IN ((\E r \in to : r.mut) \/ (loans.iter = "IterMut" /\ x \in Remaining))
                => n = 1

\* An IterMut in mid-iteration: it yielded a mutable reference that is still
\* alive and has items ahead of it.
C18_Witness ==
    /\ loans.iter = "IterMut" /\ Remaining # {}
    /\ \E r \in loans.refs : r.mut /\ r.excl
    /\ Len(hist[1]) >= 2

\* The chunks of arena a in creation order: those that received the items
\* allocated since construction / the last release.
RECURSIVE CreatedChunks(_, _)
CreatedChunks(a, n) ==
    IF n = 0 THEN <<>>
    ELSE LET c == hist[a][n].ptr[1]
         IN IF n > 1 /\ hist[a][n - 1].ptr[1] = c
            THEN CreatedChunks(a, n - 1)
            ELSE Append(CreatedChunks(a, n - 1), c)

\* C21: between operations of a running program head is present iff tail is,
\* the next links from head visit every chunk created since construction / the
\* last release exactly once, in creation order, the last one visited is the
\* tail and the tail has no next link.
C21_ForwardChain ==
    \A a \in Arenas :
        (Running /\ handle[a] = "live")
            => LET ar == arena[a]
                   ch == Chain(ar.head, NumChunkAddrs + 1)
               IN /\ (ar.head = Null) <=> (ar.tail = Null)
                  /\ ch = CreatedChunks(a, Len(hist[a]))
                  /\ Cardinality({ch[i] : i \in 1..Len(ch)}) = Len(ch)
                  /\ ar.tail # Null
                        => /\ Len(ch) >= 1 /\ ch[Len(ch)] = ar.tail
                           /\ heap[ar.tail].next = Null

\* C22: the j-th allocation (0-based) since construction / the last release
\* went to slot j mod C of the chunk at index floor(j / C) of the chain from
\* head, its reference designates that slot, which holds the value written,
\* and no two allocations share a slot.
C22_BumpAllocation ==
    \A a \in Arenas :
        (Running /\ CHUNK_SIZE > 0)
            => LET ch == Chain(arena[a].head, NumChunkAddrs)
               IN \A j \in 0..(Len(hist[a]) - 1) :
                    LET e == hist[a][j + 1]
                        idx == j \div CHUNK_SIZE
                    IN /\ e.ptr[2] = j % CHUNK_SIZE
                       /\ Len(ch) > idx /\ ch[idx + 1] = e.ptr[1]
                       /\ e.item # Uninit
                       /\ heap[e.ptr[1]].items[e.ptr[2]] = e.item
                       /\ \A k \in 0..(Len(hist[a]) - 1) :
                            k # j => hist[a][k + 1].ptr # e.ptr

\* The part of C22 that does not depend on the chain: slot j mod C of the
\* chunk created floor(j / C)-th, read-back and distinct slots.
C22_SlotsInCreationOrder ==
    \A a \in Arenas :
        (Running /\ CHUNK_SIZE > 0)
            => LET ch == CreatedChunks(a, Len(hist[a]))
               IN \A j \in 0..(Len(hist[a]) - 1) :
                    LET e == hist[a][j + 1]
                        idx == j \div CHUNK_SIZE
                    IN /\ e.ptr[2] = j % CHUNK_SIZE
                       /\ Len(ch) > idx /\ ch[idx + 1] = e.ptr[1]
                       /\ e.item # Uninit
                       /\ heap[e.ptr[1]].items[e.ptr[2]] = e.item
                       /\ \A k \in 0..(Len(hist[a]) - 1) :
                            k # j => hist[a][k + 1].ptr # e.ptr

C24_TokenLifecycle ==
    /\ [](\A a \in Arenas :
            (Running /\ handle[a] = "live")
                => ((arena[a].rc # Null) <=> (SUPPORTS_POSITIONS /\ hist[a] # <<>>)))
    /\ [][\A a \in Arenas :
            /\ (arena[a].rc # Null /\ arena'[a].rc # Null) => arena'[a].rc = arena[a].rc
            /\ (arena[a].rc = Null /\ arena'[a].rc # Null)
                  => /\ arena'[a].rc \notin {iter.rc, position.rc}
                     /\ \A b \in Arenas \ {a} : arena[b].rc # arena'[a].rc]_vars

\* The arena was released and has allocated again: it has a token, and a
\* position snapshotted before the release still holds the earlier token.
C24_Witness ==
    /\ handle[1] = "live" /\ Epoch(1) >= 1
    /\ arena[1].rc # Null /\ position.rc # Null /\ position.rc # arena[1].rc

\* C25: resuming a position on an arena returns an iterator exactly when the
\* position carries no token, or carries the very token the arena has now;
\* otherwise the call panics and returns none.
C25_ResumeValidation ==
    [][\A a \in Arenas :
         IterAt(a)
            => LET accepted == \/ position.rc = Null
                               \/ arena[a].rc # Null /\ position.rc = arena[a].rc
               IN /\ accepted => (result' = "ok" /\ HasIter' /\ iterInfo'.src = a)
                  /\ ~accepted => (result' = "panic" /\ ~HasIter')]_vars

\* A position that carries a token was resumed on the arena after its release,
\* when the arena had no token, and the call panicked.
C25_Witness ==
    /\ result = "panic" /\ ~HasIter /\ handle[1] = "live"
    /\ position.rc # Null /\ arena[1].rc = Null /\ hist[1] = <<>>

\* C26: a position snapshotted from a fresh iterator over an arena that had
\* allocated nothing carries no token (and no chunk, index 0); an iterator
\* resumed from a token-less position that has reached its end has yielded
\* all the items the arena held when it was resumed, from the first, in
\* allocation order.
C26_TokenlessPositionYieldsAll ==
    /\ [][(AsPosition /\ iterInfo.fresh /\ iterInfo.start = 0)
            => position' = [chunk |-> Null, index |-> 0, rc |-> Null]]_vars
    /\ []((HasIter /\ ~iter.DROP /\ ~iterInfo.fresh /\ ~iterInfo.ptoken /\ iterInfo.done)
            => iterInfo.out = SubSeq(Items(iterInfo.src), 1, iterInfo.start))

\* C27: a release (of a manually-released arena, or the destruction of a
\* scope-bound one) runs the destructors of the items the arena holds in
\* exactly allocation order, and every occupied slot of every chunk it frees
\* is among those it destroyed.
C27_ReleaseInAllocationOrder ==
    [][\A a \in Arenas :
         (ManuallyDrop(a) \/ ArenaDrop(a))
            => LET log == SubSeq(dropped', Len(dropped) + 1, Len(dropped'))
                   freed == LiveChunks(heap) \ LiveChunks(heap')
               IN /\ log = Items(a)
                  /\ \A c \in freed : \A k \in Slots :
                        heap[c].items[k] # Uninit
                            => \E i \in 1..Len(log) : log[i] = heap[c].items[k]]_vars

\* C28: in a running program, when nothing has been allocated since
\* construction / the last release / the destruction of the arena, and no
\* consuming iterator is still on its way, no chunk is allocated.
C28_NoChunkLeak ==
    (/\ Running
     /\ \A a \in Arenas : hist[a] = <<>>
     /\ (HasIter /\ iter.DROP) => iterInfo.done)
        => LiveChunks(heap) = {}

\* C30: the index of the iterator in the caller's hands is within 0..C, no
\* step has touched a freed chunk or an uninitialized slot, and every item the
\* iterator yielded was read from an initialized slot and has not been
\* destroyed.
C30_IteratorInvariant ==
    HasIter
        => /\ 0 <= iter.index /\ iter.index <= CHUNK_SIZE
           /\ ~ub
           /\ \A i \in 1..Len(iterInfo.out) :
                /\ iterInfo.out[i] # Uninit
                /\ DropCount(iterInfo.out[i]) = 0

\* A resumed iterator stands at the end of a full chunk (index = C) after
\* yielding, with items allocated since it was resumed.
C30_Witness ==
    /\ HasIter /\ ~iterInfo.fresh /\ ~iter.DROP /\ CHUNK_SIZE = 2
    /\ iter.index = CHUNK_SIZE /\ Len(iterInfo.out) >= 1
    /\ Len(hist[iterInfo.src]) > iterInfo.start

RECURSIVE Reverse(_)
Reverse(s) == IF s = <<>> THEN <<>> ELSE Append(Reverse(Tail(s)), Head(s))

\* C29: in the minimal design the destruction of an arena runs the
\* destructors of the items it holds in exactly reverse allocation order, and
\* every occupied slot of every chunk it frees is among those it destroyed.
C29_ReverseOrderDestruction ==
    [][\A a \in Arenas :
         InnerDrop(a)
            => LET log == SubSeq(dropped', Len(dropped) + 1, Len(dropped'))
                   freed == LiveChunks(heap) \ LiveChunks(heap')
               IN /\ log = Reverse(Items(a))
                  /\ \A c \in freed : \A k \in Slots :
                        heap[c].items[k] # Uninit
                            => \E i \in 1..Len(log) : log[i] = heap[c].items[k]]_vars

\* The chunks reached from chunk c by following prev links.
RECURSIVE PrevChain(_, _)
PrevChain(c, n) == IF c = Null \/ n = 0 THEN {} ELSE {c} \cup PrevChain(heap[c].prev, n - 1)

\* The chain from the tail of arena a still holds every item allocated to it:
\* no chunk allocation of the arena has failed.
InnerIntact(a) ==
    \A i \in 1..Len(hist[a]) :
        LET e == hist[a][i] IN
        /\ e.ptr[1] \in PrevChain(arena[a].tail, NumChunkAddrs)
        /\ heap[e.ptr[1]].items[e.ptr[2]] = e.item

\* C29 holds for an arena none of whose allocations has panicked.
C29_WhileIntact ==
    [][\A a \in Arenas :
         (InnerDrop(a) /\ InnerIntact(a))
            => LET log == SubSeq(dropped', Len(dropped) + 1, Len(dropped'))
               IN log = Reverse(Items(a))]_vars

\* C31: the iterator in the caller's hands has yielded no more items than the
\* arena held when it was created and none twice; a call of next on an
\* iterator that has returned end-of-sequence returns end-of-sequence again,
\* whatever was allocated in between; and a call of next that returns
\* end-of-sequence leaves a non-consuming iterator as it was.
C31_FiniteForwardFused ==
    /\ [](HasIter
            => /\ Len(iterInfo.out) <= iterInfo.start
               /\ \A i, j \in 1..Len(iterInfo.out) :
                    i # j => iterInfo.out[i] # iterInfo.out[j])
    /\ [][IterNext
            => /\ iterInfo.done => (iterInfo'.out = iterInfo.out /\ iterInfo'.done)
               /\ (~iter.DROP /\ iterInfo'.done) => iter' = iter]_vars

\* A non-consuming iterator has yielded two items and returned
\* end-of-sequence, standing in a chunk, and items were allocated after it was
\* created.
C31_Witness ==
    /\ HasIter /\ ~iter.DROP /\ iterInfo.done /\ iter.chunk # Null
    /\ Len(iterInfo.out) >= 2 /\ Len(hist[iterInfo.src]) > iterInfo.start

\* C32: when a chunk layout has been computed, the field with the larger
\* alignment is at offset 0 and the other one immediately after it, each
\* offset is a multiple of the alignment of its field, the link and the
\* storage do not overlap, and the block size is the link size plus
\* C times the item size.
C32_ChunkMemoryPacking ==
    memory.layout.status = "ok"
        => LET po == ChunkMemory_prev_offset(memory, CHUNK_SIZE)
               so == ChunkMemory_storage_offset(memory, CHUNK_SIZE)
               ps == ChunkMemory_prev_size
               ss == memory.size_of_T * CHUNK_SIZE
               linkFirst == po = 0 /\ so = ps
               storageFirst == so = 0 /\ po = ss
           IN /\ ChunkMemory_prev_align > memory.align_of_T => linkFirst
              /\ ChunkMemory_prev_align < memory.align_of_T => storageFirst
              /\ linkFirst \/ storageFirst
              /\ po % ChunkMemory_prev_align = 0
              /\ so % memory.align_of_T = 0
              /\ po + ps <= so \/ so + ss <= po
              /\ memory.layout.size = ps + ss

\* C32 holds whenever the storage is not empty (item size and capacity
\* positive).
C32_WhenStorageNonEmpty ==
    (memory.size_of_T > 0 /\ CHUNK_SIZE > 0) => C32_ChunkMemoryPacking

\* C39: a chunk size that exceeds the machine word, in the product item size
\* times capacity or in the sum with the link size, makes the construction
\* panic; and a size that was computed is the exact one.
C39_SizeNeverWraps ==
    memory.layout.status # "none"
        => LET product == memory.size_of_T * CHUNK_SIZE
               sum == product + ChunkMemory_prev_size
           IN /\ (product > USIZE_MAX \/ sum > USIZE_MAX)
                    => (memory.layout.status = "panic" /\ result = "panic")
              /\ memory.layout.status = "ok" => memory.layout.size = sum

\* The product item size times capacity exceeds the machine word, and the
\* construction panicked.
C39_Witness ==
    /\ memory.layout.status = "panic" /\ result = "panic"
    /\ memory.size_of_T * CHUNK_SIZE > USIZE_MAX

\* C33: no code of the item type, in particular no item destructor, is invoked
\* during an allocation call, whether the call succeeds or fails: whatever the
\* allocator answers, alloc and try_alloc run no destructor before they return.
C33_NoItemCodeDuringAllocation ==
    \A a \in Arenas :
        (Running /\ handle[a] = "live" /\ serial < MaxItems)
            => \A p \in ChunkChoices(arena[a]), t \in RcChoices(arena[a]) :
                 /\ try_alloc_ptr(arena[a], heap, serial + 1, p, t).log = <<>>
                 /\ alloc_ptr(arena[a], heap, serial + 1, p, t).log = <<>>

\* The part of C33 that holds: a call that stores its item runs no destructor.
C33_WhenStored ==
    \A a \in Arenas :
        (Running /\ handle[a] = "live" /\ serial < MaxItems)
            => \A p \in ChunkChoices(arena[a]), t \in RcChoices(arena[a]) :
                 LET r == try_alloc_ptr(arena[a], heap, serial + 1, p, t)
                 IN r.status = "some" => r.log = <<>>

\* C34: a failed fallible allocation leaves the arena unchanged: when try_alloc
\* returns failure because no chunk could be obtained, len, head, tail,
\* tail_len, the identity token and the chain are as before the call; and the
\* items allocated later are linked into the chain from the head (so iteration
\* reaches them) and release destroys each item the arena held exactly once.
C34_FailedTryAllocChangesNothing ==
    /\ [][\A a \in Arenas :
            (TryAlloc(a) /\ result' = "none") => (arena'[a] = arena[a] /\ heap' = heap)]_vars
    /\ [](Running => \A a \in Arenas : \A i \in 1..Len(hist[a]) :
            \E k \in 1..Len(Chain(arena[a].head, NumChunkAddrs)) :
                Chain(arena[a].head, NumChunkAddrs)[k] = hist[a][i].ptr[1])
    /\ [](\A a \in Arenas :
            kind[a] = "ManuallyDropArena" => \A x \in Gone(a) : DropCount(x) = 1)

\* The part of C34 that holds: a failed try_alloc changes nothing but the tail
\* field; no chunk is allocated, freed or written and no counter moves.
C34_OnlyTailChanges ==
    [][\A a \in Arenas :
         (TryAlloc(a) /\ result' = "none")
             => /\ arena'[a] = [arena[a] EXCEPT !.tail = Null]
                /\ heap' = heap]_vars

\* A non-consuming iterator made by iter, or by iter_at from a position the
\* arena accepts as its own (or from a token-less position).
C35_Borrowing ==
    /\ HasIter /\ ~iter.DROP
    /\ \/ iterInfo.fresh
       \/ ~iterInfo.ptoken
       \/ iterInfo.psrc = iterInfo.src /\ iterInfo.pepoch = iterInfo.epoch

\* C35: a non-consuming iterator yields exactly the items that existed when it
\* was created or resumed, from its start position on: it never yields an item
\* allocated later (none at all when the arena was empty), and once it has
\* reached its end it has yielded every item from its start position up to the
\* last one that existed at its creation / resumption.
C35_IteratorSnapshot ==
    C35_Borrowing
        => /\ \A i \in 1..Len(iterInfo.out) :
                \E j \in (iterInfo.skip + 1)..iterInfo.start :
                    j <= Len(hist[iterInfo.src]) /\ iterInfo.out[i] = Items(iterInfo.src)[j]
           /\ iterInfo.done
                => iterInfo.out = SubSeq(Items(iterInfo.src), iterInfo.skip + 1, iterInfo.start)

\* The part of C35 that holds: no item allocated after the creation /
\* resumption of the iterator is yielded, and nothing when the arena was empty.
C35_NeverYieldsLater ==
    C35_Borrowing
        => /\ \A i \in 1..Len(iterInfo.out) :
                \E j \in (iterInfo.skip + 1)..iterInfo.start :
                    j <= Len(hist[iterInfo.src]) /\ iterInfo.out[i] = Items(iterInfo.src)[j]
           /\ iterInfo.start = 0 => iterInfo.out = <<>>

\* C36: every position without identity token has no chunk pointer and index
\* 0, and every position with a chunk pointer carries a token; hence an
\* iterator resumed from a token-less position (any arena accepts it) starts
\* at the head of the arena it is resumed on, at index 0, and dereferences no
\* chunk of another or of a released arena.
C36_TokenlessPositionIsEmpty ==
    /\ [](HasPosition => /\ position.rc = Null => (position.chunk = Null /\ position.index = 0)
                         /\ position.chunk # Null => position.rc # Null)
    /\ [][\A a \in Arenas :
            (IterAt(a) /\ position.rc = Null)
                => /\ result' = "ok"
                   /\ iter'.chunk = arena[a].head /\ iter'.index = 0
                   /\ iter'.chunk # Null => heap[iter'.chunk].live]_vars
    /\ [](HasIter /\ ~iter.DROP /\ ~iterInfo.fresh /\ ~iterInfo.ptoken => ~ub)

C36_Witness ==
    /\ HasPosition /\ position.rc = Null
    /\ HasIter /\ ~iter.DROP /\ ~iterInfo.fresh /\ ~iterInfo.ptoken
    /\ iterInfo.psrc # iterInfo.src /\ Len(iterInfo.out) > 0

\* C37: between operations the counters agree with the chain: an arena that
\* holds no chunk has len = 0, and otherwise
\* len = (number of chunks in the chain - 1) * C + tail_len.
C37_CountersAgreeWithChain ==
    Running
        => \A a \in Arenas :
             LET n == Len(Chain(arena[a].head, NumChunkAddrs))
             IN IF n = 0
                THEN arena[a].len = 0
                ELSE arena[a].len = (n - 1) * CHUNK_SIZE + arena[a].tail_len

\* C37 holds as long as no chunk allocation has failed.
C37_WhileIntact ==
    Running
        => \A a \in Arenas :
             LET n == Len(Chain(arena[a].head, NumChunkAddrs))
             IN Intact(a)
                  => IF n = 0
                     THEN arena[a].len = 0
                     ELSE arena[a].len = (n - 1) * CHUNK_SIZE + arena[a].tail_len

\* C38: in the minimal design, when alloc fails to obtain a new chunk the
\* existing chain is left intact: no chunk allocated before is freed, the tail
\* still designates the previous tail chunk, the item references returned
\* before stay valid, and the later destruction of the arena destroys every
\* item allocated before exactly once.
C38_InnerFailureKeepsChain ==
    /\ [][\A a \in Arenas :
            (InnerAlloc(a) /\ result' = "panic")
                => /\ LiveChunks(heap') = LiveChunks(heap)
                   /\ arena'[a].tail = arena[a].tail
                   /\ \A i \in 1..Len(hist[a]) :
                        LET e == hist[a][i] IN
                        /\ heap'[e.ptr[1]].live
                        /\ heap'[e.ptr[1]].items[e.ptr[2]] = e.item]_vars
    /\ [](\A a \in Arenas :
            handle[a] = "dropped" => \A x \in Gone(a) : DropCount(x) = 1)

====
